---- MODULE Spec2Model ----
(***************************************************************************)
(* Model of the shared authorization helper (auth/src/authorize.ts):       *)
(* authorizeRequest, getSecretValue and the secret store they read.        *)
(*                                                                         *)
(* JavaScript strings are sequences of one-character strings, so that      *)
(* trim(), exact comparison, prefixes and letter case are computed and not *)
(* assumed.  The value `undefined` is the one-element sequence Undefined,   *)
(* which is not a string over Chars.                                       *)
(***************************************************************************)
EXTENDS Naturals, Sequences, FiniteSets

\* ------------------------------------------------------------------------
\* Bounds of the model
\* ------------------------------------------------------------------------

\* longest header value a request may carry
MaxLen == 2

\* authorizeRequest calls in flight at once
MaxCalls == 2

\* longest rawPath handed to the path utilities
MaxPathLen == 5

\* longest servicePrefix handed to normalizeApiPath
MaxPrefixLen == 2

\* most dependencies a health check configuration lists
MaxDeps == 2

\* ------------------------------------------------------------------------
\* JavaScript values
\* ------------------------------------------------------------------------

Undefined == <<"#undefined">>

\* null, what getSecretValue returns when it has no value
Null == <<"#null">>

Chars == {"k", "K", " "}

IsWhitespace(c) == c = " "

Str(n) == UNION {[1..m -> Chars] : m \in 0..n}

\* String.prototype.trim
RECURSIVE TrimStart(_)
TrimStart(s) ==
  IF s = <<>> THEN <<>>
  ELSE IF IsWhitespace(Head(s)) THEN TrimStart(Tail(s)) ELSE s

RECURSIVE TrimEnd(_)
TrimEnd(s) ==
  IF s = <<>> THEN <<>>
  ELSE IF IsWhitespace(s[Len(s)]) THEN TrimEnd(SubSeq(s, 1, Len(s) - 1)) ELSE s

Trim(s) == TrimEnd(TrimStart(s))

\* ToBoolean on the values of this model: undefined, null and '' are falsy
Truthy(v) == v # Undefined /\ v # Null /\ v # <<>>

\* a || b
Or(a, b) == IF Truthy(a) THEN a ELSE b

\* ------------------------------------------------------------------------
\* The request (APIGatewayProxyEvent)
\* ------------------------------------------------------------------------

HeaderNames == {"X-API-Key", "x-api-key", "X-Api-Key", "Authorization"}

\* the spellings of the credential header name a request may use
CredentialHeaderNames == {"X-API-Key", "x-api-key", "X-Api-Key"}

\* values of the fields authorizeRequest does not read
LegacyValues == {Undefined, <<"k">>}

NoHeaderMap == [n \in HeaderNames |-> Undefined]

HeaderMapOf(upper, lower, other, auth) ==
  [n \in HeaderNames |->
     IF n = "X-API-Key" THEN upper
     ELSE IF n = "x-api-key" THEN lower
     ELSE IF n = "X-Api-Key" THEN other
     ELSE auth]

HeaderValues == Str(MaxLen) \cup {Undefined}

\* event.headers (which may be null) and
\* event.requestContext.identity.apiKeyId
EventOf(h, a) == [hasHeaders |-> TRUE, headers |-> h, apiKeyId |-> a]

NullHeadersEvent(a) == [hasHeaders |-> FALSE, headers |-> NoHeaderMap, apiKeyId |-> a]

\* event.headers?.[name]
HeaderOf(event, name) ==
  IF event.hasHeaders THEN event.headers[name] ELSE Undefined

DefaultKeyName == "AVIARY_SHARED_API_KEY"

KeyNames == {DefaultKeyName, "CUSTOM_KEY_NAME"}

NoKeyName == "#undefined"

\* the third argument: absent, {} or {sharedKeyName: ...}
OptionsSet ==
  { [given |-> FALSE, sharedKeyName |-> NoKeyName],
    [given |-> TRUE, sharedKeyName |-> NoKeyName],
    [given |-> TRUE, sharedKeyName |-> "CUSTOM_KEY_NAME"] }

\* ------------------------------------------------------------------------
\* The secret store (Secrets Manager)
\* ------------------------------------------------------------------------

\* secret paths a caller may pass: '', one without '/', one with
SecretPaths == { <<>>, <<"a">>, <<"/", "a">> }

HasDelimiter(path) == \E i \in 1..Len(path) : path[i] = "/"

\* the paths under which the store can hold a secret
StorePaths == { p \in SecretPaths : HasDelimiter(p) }

StoredValues == {Undefined, <<>>, <<"k">>, <<"k", "K">>}

CustomValues == {Undefined, <<"k">>}

NoObject == [n \in KeyNames |-> Undefined]

SecretObjects ==
  { o \in [KeyNames -> StoredValues] : o["CUSTOM_KEY_NAME"] \in CustomValues }

\* what the store holds under a path: nothing, a secret without
\* SecretString, a SecretString that is not JSON, or a JSON object
Payloads ==
  { [kind |-> "notfound", object |-> NoObject],
    [kind |-> "nostring", object |-> NoObject],
    [kind |-> "malformed", object |-> NoObject] }
  \cup
  { [kind |-> "object", object |-> o] : o \in SecretObjects }

\* ------------------------------------------------------------------------
\* The calls the model makes: authorizeRequest(event, secretPath, options)
\* ------------------------------------------------------------------------

PlainPath == <<"/", "a">>

NoOptions == [given |-> FALSE, sharedKeyName |-> NoKeyName]

RequestOf(e, p, o) == [event |-> e, secretPath |-> p, options |-> o]

\* both spellings of the credential header, every pair of values
HeaderRequests ==
  { RequestOf(EventOf(HeaderMapOf(u, l, Undefined, Undefined), Undefined),
              PlainPath, NoOptions) :
      u \in HeaderValues, l \in HeaderValues }

\* the credential header next to another casing of its name, an
\* Authorization header and an API Gateway key id; events without headers
LegacyRequests ==
  { RequestOf(EventOf(HeaderMapOf(u, Undefined, x, b), a), PlainPath, NoOptions) :
      u \in HeaderValues, x \in LegacyValues, b \in LegacyValues, a \in LegacyValues }
  \cup
  { RequestOf(NullHeadersEvent(a), PlainPath, NoOptions) : a \in LegacyValues }

\* the credential header with every secret path and every options argument
LookupRequests ==
  { RequestOf(EventOf(HeaderMapOf(u, Undefined, Undefined, Undefined), Undefined), p, o) :
      u \in HeaderValues, p \in SecretPaths, o \in OptionsSet }

Requests == HeaderRequests \cup LegacyRequests \cup LookupRequests

\* ------------------------------------------------------------------------
\* State
\* ------------------------------------------------------------------------

VARIABLES
  store,   \* the secret store: path -> payload
  calls,   \* the invocations of authorizeRequest: id -> call record
  norm,    \* an application of normalizeApiPath and its re-application
  vers,    \* an application of extractApiVersion and isValidApiVersion
  dep,     \* an application of addDeprecationHeaders and its re-application
  gate,    \* a gateway path: normalized, then validated, and validated raw
  health   \* an invocation of the health handler and its dependency checks

vars == <<store, calls, norm, vers, dep, gate, health>>

\* the value of a variable in a specification that does not exercise it
Unused == [pc |-> "unused"]

\* the variables authorizeRequest and the secret store do not touch
others == <<norm, vers, dep, gate, health>>

NoResponse == [kind |-> "none", secret |-> [kind |-> "notfound", object |-> NoObject]]

NoLookup == [SecretId |-> <<>>, key |-> NoKeyName]

\* AuthResult
NotAuthorized == [authorized |-> FALSE, method |-> "none"]

\* variant of Authorized that marks every success as deprecated
AuthorizedDeprecated ==
  [authorized |-> TRUE, method |-> "shared-key", deprecation |-> "legacy"]

Authorized == [authorized |-> TRUE, method |-> "shared-key"]

NoResult == [authorized |-> FALSE, method |-> "#pending"]

IdleCall ==
  [ pc |-> "idle",
    event |-> NullHeadersEvent(Undefined),
    secretPath |-> <<>>,
    options |-> NoOptions,
    trimmedKey |-> Undefined,
    sends |-> 0,
    lookup |-> NoLookup,
    response |-> NoResponse,
    threw |-> FALSE,
    result |-> NoResult ]

\* ------------------------------------------------------------------------
\* authorizeRequest and getSecretValue
\* ------------------------------------------------------------------------

\* variant of KeyName that ignores the options argument
KeyNameDefaultOnly(options) == DefaultKeyName

\* const { sharedKeyName = 'AVIARY_SHARED_API_KEY' } = options || {}
KeyName(options) ==
  IF options.given /\ options.sharedKeyName # NoKeyName
  THEN options.sharedKeyName
  ELSE DefaultKeyName

\* variants of SharedKeyHeader with a defect
SharedKeyHeaderUpperOnly(event) == HeaderOf(event, "X-API-Key")

SharedKeyHeaderTrimFallback(event) ==
  IF HeaderOf(event, "X-API-Key") # Undefined /\ Truthy(Trim(HeaderOf(event, "X-API-Key")))
  THEN HeaderOf(event, "X-API-Key")
  ELSE HeaderOf(event, "x-api-key")

SharedKeyHeaderLowerFirst(event) ==
  Or(HeaderOf(event, "x-api-key"), HeaderOf(event, "X-API-Key"))

SharedKeyHeaderOrBearer(event) ==
  Or(Or(HeaderOf(event, "X-API-Key"), HeaderOf(event, "x-api-key")),
     HeaderOf(event, "Authorization"))

\* event.headers?.['X-API-Key'] || event.headers?.['x-api-key']
SharedKeyHeader(event) ==
  Or(HeaderOf(event, "X-API-Key"), HeaderOf(event, "x-api-key"))

\* variant of NeedsLookup without the check of the trimmed value
NeedsLookupUntrimmed(sharedKey) == Truthy(sharedKey)

\* the two early returns: no lookup unless the header is truthy and its
\* trimmed value is truthy
NeedsLookup(sharedKey) ==
  IF ~Truthy(sharedKey) THEN FALSE
  ELSE Truthy(Trim(sharedKey))

\* getSecretValue once send() has settled with `response`: every exception
\* (send rejected, JSON.parse threw) is caught and turned into null
GetSecretValue(response, key) ==
  IF response.kind = "reject" THEN Null
  ELSE IF response.secret.kind = "nostring" THEN Null
  ELSE IF response.secret.kind = "malformed" THEN Null
  ELSE Or(response.secret.object[key], Null)

LowerChar(ch) == IF ch = "K" THEN "k" ELSE ch

ToLowerCase(str) == [i \in 1..Len(str) |-> LowerChar(str[i])]

\* variant of KeysMatch that lets an empty expected key match
KeysMatchFailOpen(trimmedKey, expectedKey) ==
  ~Truthy(expectedKey) \/ trimmedKey = expectedKey

\* variant of KeysMatch that ignores letter case
KeysMatchIgnoreCase(trimmedKey, expectedKey) ==
  Truthy(expectedKey) /\ ToLowerCase(trimmedKey) = ToLowerCase(expectedKey)

\* expectedKey && trimmedKey === expectedKey
KeysMatch(trimmedKey, expectedKey) ==
  Truthy(expectedKey) /\ trimmedKey = expectedKey

\* variant of AuthorizeResume that awaits the store with no try/catch
AuthorizeResumeUncaught(trimmedKey, key, response) ==
  IF response.kind = "reject" \/ response.secret.kind = "malformed"
  THEN [threw |-> TRUE, result |-> NoResult]
  ELSE IF response.secret.kind = "object"
          /\ KeysMatch(trimmedKey, Or(response.secret.object[key], Null))
       THEN [threw |-> FALSE, result |-> Authorized]
       ELSE [threw |-> FALSE, result |-> NotAuthorized]

\* variant of AuthorizeResume that reports the method it attempted
AuthorizeResumeMethodAttempted(trimmedKey, key, response) ==
  IF KeysMatch(trimmedKey, GetSecretValue(response, key))
  THEN [threw |-> FALSE, result |-> Authorized]
  ELSE [threw |-> FALSE, result |-> [authorized |-> FALSE, method |-> "shared-key"]]

\* the rest of authorizeRequest after the await: [threw, result]
AuthorizeResume(trimmedKey, key, response) ==
  LET expectedKey == GetSecretValue(response, key) IN
  IF KeysMatch(trimmedKey, expectedKey)
  THEN [threw |-> FALSE, result |-> Authorized]
  ELSE [threw |-> FALSE, result |-> NotAuthorized]

\* ------------------------------------------------------------------------
\* Actions
\* ------------------------------------------------------------------------

\* authorizeRequest(event, secretPath, options) runs up to its first await,
\* or to its return when it rejects the request without a lookup
Invoke(c, event, secretPath, options) ==
  /\ calls[c].pc = "idle"
  /\ LET sharedKey == SharedKeyHeader(event)
         base == [calls[c] EXCEPT !.event = event,
                                  !.secretPath = secretPath,
                                  !.options = options]
     IN IF NeedsLookup(sharedKey)
        THEN calls' = [calls EXCEPT ![c] =
               [base EXCEPT !.pc = "awaiting",
                            !.trimmedKey = Trim(sharedKey),
                            !.sends = calls[c].sends + 1,
                            !.lookup = [SecretId |-> secretPath,
                                        key |-> KeyName(options)]]]
        ELSE calls' = [calls EXCEPT ![c] =
               [base EXCEPT !.pc = "done", !.result = NotAuthorized]]
  /\ UNCHANGED <<store, others>>

\* variant of Settle that keeps the first secret read in a module-level cache
SettleCached(c, response) ==
  LET readers == { d \in DOMAIN calls \ {c} :
                     /\ calls[d].pc = "done"
                     /\ calls[d].response.kind = "resolve"
                     /\ calls[d].lookup = calls[c].lookup }
      used == IF response.kind = "resolve" /\ readers # {}
              THEN calls[CHOOSE d \in readers : TRUE].response
              ELSE response
      out == AuthorizeResume(calls[c].trimmedKey, calls[c].lookup.key, used)
  IN calls' = [calls EXCEPT ![c] =
       [calls[c] EXCEPT !.pc = "done",
                        !.response = used,
                        !.threw = out.threw,
                        !.result = out.result]]

\* variant of Settle that keeps the trimmed key in a module-level variable
SettleSharedKey(c, response) ==
  LET writers == { d \in DOMAIN calls \ {c} : calls[d].pc = "awaiting" }
      key == IF writers # {}
             THEN calls[CHOOSE d \in writers : TRUE].trimmedKey
             ELSE calls[c].trimmedKey
      out == AuthorizeResume(key, calls[c].lookup.key, response)
  IN calls' = [calls EXCEPT ![c] =
       [calls[c] EXCEPT !.pc = "done",
                        !.response = response,
                        !.threw = out.threw,
                        !.result = out.result]]

\* the continuation of the call once send() has settled
Settle(c, response) ==
  LET out == AuthorizeResume(calls[c].trimmedKey, calls[c].lookup.key, response)
  IN calls' = [calls EXCEPT ![c] =
       [calls[c] EXCEPT !.pc = "done",
                        !.response = response,
                        !.threw = out.threw,
                        !.result = out.result]]

\* send() resolves with the secret the store holds under SecretId
SendResolves(c) ==
  /\ calls[c].pc = "awaiting"
  /\ calls[c].lookup.SecretId \in StorePaths
  /\ store[calls[c].lookup.SecretId].kind # "notfound"
  /\ Settle(c, [kind |-> "resolve", secret |-> store[calls[c].lookup.SecretId]])
  /\ UNCHANGED <<store, others>>

\* send() rejects: invalid or unknown SecretId, or the store is unavailable
SendRejects(c) ==
  /\ calls[c].pc = "awaiting"
  /\ Settle(c, [kind |-> "reject", secret |-> NoResponse.secret])
  /\ UNCHANGED <<store, others>>

\* the caller has taken the result; the slot is free for the next request
Return(c) ==
  /\ calls[c].pc = "done"
  /\ calls' = [calls EXCEPT ![c] = IdleCall]
  /\ UNCHANGED <<store, others>>

\* the secret under a path is created, rotated or deleted; a call that has
\* returned reads nothing more, so its result is taken before the next change
PutSecretValue(path, payload) ==
  /\ \A c \in DOMAIN calls : calls[c].pc # "done"
  /\ store[path] # payload
  /\ store' = [store EXCEPT ![path] = payload]
  /\ UNCHANGED <<calls, others>>

Init ==
  /\ store \in [StorePaths -> Payloads]
  /\ calls = [c \in {1} |-> IdleCall]
  /\ norm = Unused
  /\ vers = Unused
  /\ dep = Unused
  /\ gate = Unused
  /\ health = Unused

Next ==
  \/ \E c \in DOMAIN calls, r \in Requests :
       Invoke(c, r.event, r.secretPath, r.options)
  \/ \E c \in DOMAIN calls : SendResolves(c)
  \/ \E c \in DOMAIN calls : SendRejects(c)
  \/ \E c \in DOMAIN calls : Return(c)
  \/ \E p \in StorePaths, y \in Payloads : PutSecretValue(p, y)

Spec == Init /\ [][Next]_vars

\* ------------------------------------------------------------------------
\* Concurrent calls of authorizeRequest beside a changing secret
\* ------------------------------------------------------------------------

\* the credential header absent, or carrying one of two keys
ConcurrentRequests ==
  { RequestOf(EventOf(HeaderMapOf(u, Undefined, Undefined, Undefined), Undefined),
              PlainPath, NoOptions) :
      u \in {Undefined, <<"k">>, <<"K">>} }

\* the secret is missing, or holds one of the two keys
RotatedPayloads ==
  { [kind |-> "notfound", object |-> NoObject] }
  \cup
  { [kind |-> "object", object |-> [NoObject EXCEPT ![DefaultKeyName] = v]] :
      v \in {<<"k">>, <<"K">>} }

\* the owner of the secret rotates or deletes it, at any moment
RotateSecret(path, payload) ==
  /\ store[path] # payload
  /\ store' = [store EXCEPT ![path] = payload]
  /\ UNCHANGED <<calls, others>>

InitConcurrent ==
  /\ store \in [StorePaths -> RotatedPayloads]
  /\ calls = [c \in 1..MaxCalls |-> IdleCall]
  /\ norm = Unused
  /\ vers = Unused
  /\ dep = Unused
  /\ gate = Unused
  /\ health = Unused

NextConcurrent ==
  \/ \E c \in DOMAIN calls, r \in ConcurrentRequests :
       Invoke(c, r.event, r.secretPath, r.options)
  \/ \E c \in DOMAIN calls : SendResolves(c)
  \/ \E c \in DOMAIN calls : SendRejects(c)
  \/ \E c \in DOMAIN calls : Return(c)
  \/ \E p \in StorePaths, y \in RotatedPayloads : RotateSecret(p, y)

SpecConcurrent == InitConcurrent /\ [][NextConcurrent]_vars

\* ------------------------------------------------------------------------
\* addDeprecationHeaders(existingHeaders, authResult, sunsetDate)
\* ------------------------------------------------------------------------

\* a header value: a list of comma-separated items
TextValue(t) == [kind |-> "list", items |-> <<t>>]

\* an ISO-8601 UTC instant, 2025-06-15T14:30:00Z
IsoDate(y, m, d, hh, mm, ss) ==
  [year |-> y, month |-> m, day |-> d, hour |-> hh, minute |-> mm, second |-> ss]

SunsetDates ==
  { IsoDate(2025, 6, 15, 14, 30, 0),
    IsoDate(2025, 12, 31, 23, 59, 59),
    IsoDate(2024, 2, 29, 0, 0, 0) }

WeekdayNames == <<"Sun", "Mon", "Tue", "Wed", "Thu", "Fri", "Sat">>

MonthNames ==
  <<"Jan", "Feb", "Mar", "Apr", "May", "Jun",
    "Jul", "Aug", "Sep", "Oct", "Nov", "Dec">>

MonthOffsets == <<0, 3, 2, 5, 0, 3, 5, 1, 4, 6, 2, 4>>

\* day of the week of a UTC calendar date, 0 = Sunday
DayOfWeek(y, m, d) ==
  LET yy == IF m < 3 THEN y - 1 ELSE y
  IN (yy + (yy \div 4) - (yy \div 100) + (yy \div 400) + MonthOffsets[m] + d) % 7

\* the HTTP-date of an ISO instant: Sun, 15 Jun 2025 14:30:00 GMT
ToHttpDate(iso) ==
  [ kind |-> "date",
    weekday |-> WeekdayNames[DayOfWeek(iso.year, iso.month, iso.day) + 1],
    day |-> iso.day,
    month |-> MonthNames[iso.month],
    year |-> iso.year,
    hour |-> iso.hour,
    minute |-> iso.minute,
    second |-> iso.second,
    zone |-> "GMT" ]

MigrationLink == "<https://docs.chirpy.studio/auth-migration>; rel=\"deprecation\""

DeprecationHeaderNames == {"Sunset", "Deprecation", "Link", "X-Auth-Method"}

\* the results handed to addDeprecationHeaders
LegacyResult(method) ==
  [authorized |-> TRUE, method |-> method, deprecation |-> "legacy"]

AuthResults ==
  { Authorized, NotAuthorized,
    LegacyResult("legacy-api-gateway"), LegacyResult("legacy-bearer") }

\* the response headers a handler has set before the call
ExistingHeaderNames == {"Content-Type", "Cache-Control"}

ExistingHeaderValues ==
  [ n \in ExistingHeaderNames |->
      IF n = "Content-Type"
      THEN {TextValue("application/json"), TextValue("text/plain")}
      ELSE {TextValue("no-store"), TextValue("max-age=60")} ]

ExistingHeaders ==
  UNION { { h \in [names -> UNION {ExistingHeaderValues[n] : n \in ExistingHeaderNames}] :
              \A n \in names : h[n] \in ExistingHeaderValues[n] } :
          names \in SUBSET ExistingHeaderNames }

DeprecationHeaderValue(n, authResult, sunsetDate) ==
  IF n = "Sunset" THEN ToHttpDate(sunsetDate)
  ELSE IF n = "Deprecation" THEN TextValue("true")
  ELSE IF n = "Link" THEN TextValue(MigrationLink)
  ELSE TextValue(authResult.method)

\* variant of addDeprecationHeaders that appends to an existing Link header
addDeprecationHeadersAppending(existingHeaders, authResult, sunsetDate) ==
  IF "deprecation" \notin DOMAIN authResult
  THEN existingHeaders
  ELSE [ n \in DOMAIN existingHeaders \cup DeprecationHeaderNames |->
           IF n = "Link" /\ n \in DOMAIN existingHeaders
           THEN [kind |-> "list",
                 items |-> Append(existingHeaders[n].items, MigrationLink)]
           ELSE IF n \in DeprecationHeaderNames
           THEN DeprecationHeaderValue(n, authResult, sunsetDate)
           ELSE existingHeaders[n] ]

\* headers unchanged without a deprecation marker; otherwise the four
\* deprecation headers are set and every other header is kept
addDeprecationHeaders(existingHeaders, authResult, sunsetDate) ==
  IF "deprecation" \notin DOMAIN authResult
  THEN existingHeaders
  ELSE [ n \in DOMAIN existingHeaders \cup DeprecationHeaderNames |->
           IF n \in DeprecationHeaderNames
           THEN DeprecationHeaderValue(n, authResult, sunsetDate)
           ELSE existingHeaders[n] ]

NoHeaders == [n \in {} |-> TextValue("")]

\* the handler adds the deprecation headers to its response headers
AddHeaders ==
  /\ dep.pc = "input"
  /\ dep' = [dep EXCEPT
       !.pc = "once",
       !.once = addDeprecationHeaders(dep.headers, dep.authResult, dep.sunsetDate)]
  /\ UNCHANGED <<store, calls, norm, vers, gate, health>>

\* the result is passed through addDeprecationHeaders a second time
AddHeadersAgain ==
  /\ dep.pc = "once"
  /\ dep' = [dep EXCEPT
       !.pc = "twice",
       !.twice = addDeprecationHeaders(dep.once, dep.authResult, dep.sunsetDate)]
  /\ UNCHANGED <<store, calls, norm, vers, gate, health>>

NoStore == [p \in StorePaths |-> [kind |-> "notfound", object |-> NoObject]]

NoCalls == [c \in {} |-> IdleCall]

InitDep ==
  /\ gate = Unused
  /\ health = Unused
  /\ store = NoStore
  /\ calls = NoCalls
  /\ norm = Unused
  /\ vers = Unused
  /\ dep \in [ pc : {"input"},
               headers : ExistingHeaders,
               authResult : AuthResults,
               sunsetDate : SunsetDates,
               once : {NoHeaders},
               twice : {NoHeaders} ]

NextDep ==
  \/ AddHeaders
  \/ AddHeadersAgain

SpecDep == InitDep /\ [][NextDep]_vars

\* ------------------------------------------------------------------------
\* normalizeApiPath(rawPath, servicePrefix)
\* ------------------------------------------------------------------------

\* the characters of paths and prefixes: the separator and two letters
NormChars == {"/", "s", "v"}

StrOver(chars, n) == UNION {[1..m -> chars] : m \in 0..n}

RawPaths == StrOver(NormChars, MaxPathLen) \cup {Undefined}

ServicePrefixes == StrOver(NormChars, MaxPrefixLen) \cup {Undefined}

\* String.prototype.startsWith
StartsWith(str, pre) ==
  Len(pre) <= Len(str) /\ SubSeq(str, 1, Len(pre)) = pre

\* String.prototype.substring(from)
Substring(str, from) == SubSeq(str, from + 1, Len(str))

\* rawPath.startsWith('/') ? rawPath : `/${rawPath}`
WithLeadingSlash(rawPath) ==
  IF StartsWith(rawPath, <<"/">>) THEN rawPath ELSE <<"/">> \o rawPath

\* variant of normalizeApiPath that leaves the prefix in place
normalizeApiPathKeepPrefix(rawPath, servicePrefix) ==
  IF ~Truthy(rawPath) THEN <<"/">> ELSE WithLeadingSlash(rawPath)

\* variant of normalizeApiPath that matches the prefix without a segment
\* boundary
normalizeApiPathNoBoundary(rawPath, servicePrefix) ==
  IF ~Truthy(rawPath) THEN <<"/">>
  ELSE IF ~Truthy(servicePrefix) THEN WithLeadingSlash(rawPath)
  ELSE LET path == WithLeadingSlash(rawPath)
           prefixPattern == <<"/">> \o servicePrefix
       IN IF StartsWith(path, prefixPattern)
          THEN WithLeadingSlash(Substring(path, Len(prefixPattern)))
          ELSE path

\* variant of normalizeApiPath that returns the remainder as it is
normalizeApiPathBareRemainder(rawPath, servicePrefix) ==
  IF ~Truthy(rawPath) THEN <<"/">>
  ELSE IF ~Truthy(servicePrefix) THEN WithLeadingSlash(rawPath)
  ELSE LET path == WithLeadingSlash(rawPath)
           prefixPattern == <<"/">> \o servicePrefix
       IN IF path = prefixPattern \/ StartsWith(path, prefixPattern \o <<"/">>)
          THEN Substring(path, Len(prefixPattern))
          ELSE path

\* variant of normalizeApiPath that removes every leading occurrence
RECURSIVE normalizeApiPathRepeated(_, _)
normalizeApiPathRepeated(rawPath, servicePrefix) ==
  IF ~Truthy(rawPath) THEN <<"/">>
  ELSE IF ~Truthy(servicePrefix) THEN WithLeadingSlash(rawPath)
  ELSE LET path == WithLeadingSlash(rawPath)
           prefixPattern == <<"/">> \o servicePrefix
       IN IF path = prefixPattern \/ StartsWith(path, prefixPattern \o <<"/">>)
          THEN normalizeApiPathRepeated(Substring(path, Len(prefixPattern)), servicePrefix)
          ELSE path

\* variant of normalizeApiPath without the check for a missing prefix
normalizeApiPathAnyPrefix(rawPath, servicePrefix) ==
  IF ~Truthy(rawPath) THEN <<"/">>
  ELSE LET path == WithLeadingSlash(rawPath)
           prefixPattern == IF servicePrefix = Undefined
                            THEN <<"/">> \o Undefined
                            ELSE <<"/">> \o servicePrefix
       IN IF path = prefixPattern \/ StartsWith(path, prefixPattern \o <<"/">>)
          THEN LET withoutPrefix == Substring(path, Len(prefixPattern))
               IN IF ~Truthy(withoutPrefix) THEN <<"/">> ELSE withoutPrefix
          ELSE path

normalizeApiPath(rawPath, servicePrefix) ==
  IF ~Truthy(rawPath) THEN <<"/">>
  ELSE IF ~Truthy(servicePrefix) THEN WithLeadingSlash(rawPath)
  ELSE LET path == WithLeadingSlash(rawPath)
           prefixPattern == <<"/">> \o servicePrefix
       IN IF path = prefixPattern \/ StartsWith(path, prefixPattern \o <<"/">>)
          THEN LET withoutPrefix == Substring(path, Len(prefixPattern))
               IN IF ~Truthy(withoutPrefix) THEN <<"/">> ELSE withoutPrefix
          ELSE path

NoPath == <<"#none">>

\* a handler normalizes event.path
NormalizePath ==
  /\ norm.pc = "input"
  /\ norm' = [norm EXCEPT
       !.pc = "once",
       !.once = normalizeApiPath(norm.rawPath, norm.servicePrefix)]
  /\ UNCHANGED <<store, calls, vers, dep, gate, health>>

\* the normalized path is normalized again with the same prefix
NormalizeAgain ==
  /\ norm.pc = "once"
  /\ norm' = [norm EXCEPT
       !.pc = "twice",
       !.twice = normalizeApiPath(norm.once, norm.servicePrefix)]
  /\ UNCHANGED <<store, calls, vers, dep, gate, health>>

InitNorm ==
  /\ gate = Unused
  /\ health = Unused
  /\ store = NoStore
  /\ calls = NoCalls
  /\ vers = Unused
  /\ dep = Unused
  /\ norm \in [ pc : {"input"},
                rawPath : RawPaths,
                servicePrefix : ServicePrefixes,
                once : {NoPath},
                twice : {NoPath} ]

NextNorm ==
  \/ NormalizePath
  \/ NormalizeAgain

SpecNorm == InitNorm /\ [][NextNorm]_vars

\* ------------------------------------------------------------------------
\* extractApiVersion(normalizedPath), isValidApiVersion(normalizedPath,
\* expectedVersion)
\* ------------------------------------------------------------------------

\* the characters of versioned paths: the separator, the marker, two digits
VersionChars == {"/", "v", "1", "2"}

NormalizedPaths == StrOver(VersionChars, MaxPathLen)

ExpectedVersions ==
  {Undefined, <<"v", "1">>, <<"v", "2">>, <<"v", "1", "1">>, <<"1">>}

\* \d
IsDigit(c) == c \in {"0", "1", "2", "3", "4", "5", "6", "7", "8", "9"}

\* (\d+), greedy: the digits at the start of str
RECURSIVE Digits(_)
Digits(str) ==
  IF str # <<>> /\ IsDigit(Head(str))
  THEN <<Head(str)>> \o Digits(Tail(str))
  ELSE <<>>

\* variant of extractApiVersion whose pattern is not closed by '/'
extractApiVersionUnclosed(normalizedPath) ==
  LET rest == Substring(normalizedPath, 2)
      digits == Digits(rest)
  IN IF StartsWith(normalizedPath, <<"/", "v">>) /\ digits # <<>>
     THEN <<"v">> \o digits
     ELSE Null

\* normalizedPath.match(/^\/v(\d+)\//)
extractApiVersion(normalizedPath) ==
  LET rest == Substring(normalizedPath, 2)
      digits == Digits(rest)
  IN IF /\ StartsWith(normalizedPath, <<"/", "v">>)
        /\ digits # <<>>
        /\ StartsWith(Substring(rest, Len(digits)), <<"/">>)
     THEN <<"v">> \o digits
     ELSE Null

\* variant of isValidApiVersion without the default expected version
isValidApiVersionNoDefault(normalizedPath, expectedVersion) ==
  LET version == extractApiVersion(normalizedPath)
  IN version = Null \/ version = expectedVersion

isValidApiVersion(normalizedPath, expectedVersion) ==
  LET expected == IF expectedVersion = Undefined THEN <<"v", "1">>
                  ELSE expectedVersion
      version == extractApiVersion(normalizedPath)
  IN version = Null \/ version = expected

NoVersion == <<"#none">>

ExtractVersion ==
  /\ vers.pc = "input"
  /\ vers' = [vers EXCEPT
       !.pc = "extracted",
       !.version = extractApiVersion(vers.path)]
  /\ UNCHANGED <<store, calls, norm, dep, gate, health>>

ValidateVersion ==
  /\ vers.pc = "extracted"
  /\ vers' = [vers EXCEPT
       !.pc = "validated",
       !.valid = isValidApiVersion(vers.path, vers.expectedVersion)]
  /\ UNCHANGED <<store, calls, norm, dep, gate, health>>

InitVers ==
  /\ gate = Unused
  /\ health = Unused
  /\ store = NoStore
  /\ calls = NoCalls
  /\ norm = Unused
  /\ dep = Unused
  /\ vers \in [ pc : {"input"},
                path : NormalizedPaths,
                expectedVersion : ExpectedVersions,
                version : {NoVersion},
                valid : {FALSE} ]

NextVers ==
  \/ ExtractVersion
  \/ ValidateVersion

SpecVers == InitVers /\ [][NextVers]_vars

\* ------------------------------------------------------------------------
\* createHealthHandler(config) and checkDependency(dep, region)
\* ------------------------------------------------------------------------

\* HealthCheckDependency: name, type, resource?, check?
DependencyOf(name, type, resource, check) ==
  [name |-> name, type |-> type, resource |-> resource, check |-> check]

\* one dependency of each shape: the three AWS types with a resource, a
\* custom check, a custom check beside a type and resource, and the two
\* shapes without a usable check
ConfiguredDependencies ==
  { DependencyOf("Jobs Table", "dynamodb", <<"jobs">>, FALSE),
    DependencyOf("Assets", "s3", <<"assets">>, FALSE),
    DependencyOf("Work Queue", "sqs", <<"queue">>, FALSE),
    DependencyOf("Upstream", "custom", Undefined, TRUE),
    DependencyOf("Orders Table", "dynamodb", <<"orders">>, TRUE),
    DependencyOf("Nothing", "custom", Undefined, FALSE),
    DependencyOf("No Bucket", "s3", <<>>, FALSE) }

\* HealthCheckConfig: dependencies is missing, or a list of dependencies
HealthConfigs ==
  { [hasDependencies |-> FALSE, dependencies |-> <<>>] }
  \cup
  { [hasDependencies |-> TRUE, dependencies |-> l] :
      l \in UNION {[1..n -> ConfiguredDependencies] : n \in 0..MaxDeps} }

\* variant of DependencyChecker that looks at the declared type first
DependencyCheckerTypeFirst(d) ==
  IF d.type = "dynamodb" /\ Truthy(d.resource) THEN "dynamodb"
  ELSE IF d.type = "s3" /\ Truthy(d.resource) THEN "s3"
  ELSE IF d.type = "sqs" /\ Truthy(d.resource) THEN "sqs"
  ELSE IF d.check THEN "custom"
  ELSE "invalid"

\* the branch checkDependency takes for a dependency
DependencyChecker(d) ==
  IF d.check THEN "custom"
  ELSE IF d.type = "dynamodb" /\ Truthy(d.resource) THEN "dynamodb"
  ELSE IF d.type = "s3" /\ Truthy(d.resource) THEN "s3"
  ELSE IF d.type = "sqs" /\ Truthy(d.resource) THEN "sqs"
  ELSE "invalid"

\* what a rejection carries: an Error with its message, or another value
ErrorOf(message) == [isError |-> TRUE, message |-> message]

NotAnError == [isError |-> FALSE, message |-> Undefined]

Thrown == {ErrorOf(<<"boom">>), NotAnError}

NoTableStatus == <<"#none">>

Resolved(healthy, tableStatus) ==
  [kind |-> "resolve", healthy |-> healthy, tableStatus |-> tableStatus,
   thrown |-> NotAnError]

Rejected(thrown) ==
  [kind |-> "reject", healthy |-> FALSE, tableStatus |-> NoTableStatus,
   thrown |-> thrown]

\* how the awaited call of a checker can settle: dep.check() resolves true
\* or false, DescribeTable resolves with a table status or without a table,
\* HeadBucket and GetQueueAttributes resolve; each of them can reject
Outcomes(checker) ==
  { Rejected(t) : t \in Thrown }
  \cup
  ( IF checker = "custom"
    THEN { Resolved(h, NoTableStatus) : h \in BOOLEAN }
    ELSE IF checker = "dynamodb"
    THEN { Resolved(FALSE, t) : t \in {<<"ACTIVE">>, <<"CREATING">>, Undefined} }
    ELSE { Resolved(FALSE, NoTableStatus) } )

\* error instanceof Error ? error.message : 'Unknown error'
ErrorMessage(thrown) ==
  IF thrown.isError THEN thrown.message ELSE <<"Unknown error">>

CheckResult(healthy, error) == [healthy |-> healthy, error |-> error]

checkDynamoDBTable(outcome) ==
  IF outcome.kind = "reject"
  THEN CheckResult(FALSE, ErrorMessage(outcome.thrown))
  ELSE IF outcome.tableStatus = <<"ACTIVE">>
  THEN CheckResult(TRUE, Undefined)
  ELSE CheckResult(FALSE, <<"Table status: ">> \o outcome.tableStatus)

checkS3Bucket(outcome) ==
  IF outcome.kind = "reject"
  THEN CheckResult(FALSE, ErrorMessage(outcome.thrown))
  ELSE CheckResult(TRUE, Undefined)

checkSQSQueue(outcome) ==
  IF outcome.kind = "reject"
  THEN CheckResult(FALSE, ErrorMessage(outcome.thrown))
  ELSE CheckResult(TRUE, Undefined)

\* DependencyStatus as checkDependency creates it
InitialStatus(d) ==
  [ name |-> d.name,
    type |-> d.type,
    status |-> "unhealthy",
    resource |-> d.resource,
    error |-> Undefined,
    timed |-> FALSE ]

\* status.status, status.responseTime and status.error from a result
StatusFrom(d, result) ==
  [InitialStatus(d) EXCEPT
     !.status = IF result.healthy THEN "healthy" ELSE "unhealthy",
     !.timed = TRUE,
     !.error = IF Truthy(result.error) THEN result.error ELSE Undefined]

\* the catch block of checkDependency
StatusCaught(d, message) ==
  [InitialStatus(d) EXCEPT !.status = "unhealthy", !.error = message]

InvalidConfiguration(d) == <<"Invalid dependency configuration: ", d.name>>

\* variant of checkDependency without its try/catch
checkDependencyUncaught(d, outcome) ==
  LET checker == DependencyChecker(d) IN
  IF checker = "invalid" \/ (checker = "custom" /\ outcome.kind = "reject")
  THEN [threw |-> TRUE, status |-> InitialStatus(d)]
  ELSE IF checker = "custom"
  THEN [threw |-> FALSE, status |-> StatusFrom(d, CheckResult(outcome.healthy, Undefined))]
  ELSE IF checker = "dynamodb"
  THEN [threw |-> FALSE, status |-> StatusFrom(d, checkDynamoDBTable(outcome))]
  ELSE IF checker = "s3"
  THEN [threw |-> FALSE, status |-> StatusFrom(d, checkS3Bucket(outcome))]
  ELSE [threw |-> FALSE, status |-> StatusFrom(d, checkSQSQueue(outcome))]

\* checkDependency once the awaited call has settled with `outcome` (none
\* is awaited for an invalid configuration): [threw, status]
checkDependency(d, outcome) ==
  LET checker == DependencyChecker(d) IN
  IF checker = "invalid"
  THEN [threw |-> FALSE, status |-> StatusCaught(d, InvalidConfiguration(d))]
  ELSE IF checker = "custom"
  THEN IF outcome.kind = "reject"
       THEN [threw |-> FALSE, status |-> StatusCaught(d, ErrorMessage(outcome.thrown))]
       ELSE [threw |-> FALSE, status |-> StatusFrom(d, CheckResult(outcome.healthy, Undefined))]
  ELSE IF checker = "dynamodb"
  THEN [threw |-> FALSE, status |-> StatusFrom(d, checkDynamoDBTable(outcome))]
  ELSE IF checker = "s3"
  THEN [threw |-> FALSE, status |-> StatusFrom(d, checkS3Bucket(outcome))]
  ELSE [threw |-> FALSE, status |-> StatusFrom(d, checkSQSQueue(outcome))]

NoOutcome == Resolved(FALSE, NoTableStatus)

\* a call of checkDependency: awaiting its checker, or returned
PendingCheck(d) ==
  [pc |-> "pending", outcome |-> NoOutcome, status |-> InitialStatus(d)]

\* outcome: how the awaited call settled
SettledCheck(outcome, status) ==
  [pc |-> "settled", outcome |-> outcome, status |-> status]

\* variant of AllSettled that stops waiting at the first settled check
AnySettled(checks) ==
  \E i \in 1..Len(checks) : checks[i].pc = "settled"

\* Promise.all resolves: every checkDependency call has returned
AllSettled(checks) ==
  \A i \in 1..Len(checks) : checks[i].pc = "settled"

\* variant of CollectStatuses that lists the statuses as they arrive
CollectStatusesAsCompleted(checks, order) ==
  [k \in 1..Len(order) |-> checks[order[k]].status]

\* the array Promise.all resolves with: one status per dependency, in the
\* order of config.dependencies
CollectStatuses(checks, order) ==
  [i \in 1..Len(checks) |-> checks[i].status]

UnhealthyCount(statuses) ==
  Cardinality({ i \in 1..Len(statuses) : statuses[i].status = "unhealthy" })

\* variant of OverallStatus without the check for configured dependencies
OverallStatusUnguarded(config, statuses) ==
  IF UnhealthyCount(statuses) = Len(statuses) THEN "unhealthy"
  ELSE IF UnhealthyCount(statuses) > 0 THEN "degraded"
  ELSE "healthy"

\* response.status
OverallStatus(config, statuses) ==
  IF config.hasDependencies /\ Len(config.dependencies) > 0
  THEN IF UnhealthyCount(statuses) = Len(statuses) THEN "unhealthy"
       ELSE IF UnhealthyCount(statuses) > 0 THEN "degraded"
       ELSE "healthy"
  ELSE "healthy"

\* variant of HttpStatus that answers 200 only for 'healthy'
HttpStatusStrict(status) == IF status = "healthy" THEN 200 ELSE 503

\* response.status === 'unhealthy' ? 503 : 200
HttpStatus(status) == IF status = "unhealthy" THEN 503 ELSE 200

NoHealthResponse ==
  [ statusCode |-> 0,
    body |-> [status |-> "#none", hasDependencies |-> FALSE, dependencies |-> <<>>] ]

\* the APIGatewayProxyResult; body is the response before JSON.stringify
HealthResponse(config, statuses) ==
  LET status == OverallStatus(config, statuses)
      checked == config.hasDependencies /\ Len(config.dependencies) > 0
  IN [ statusCode |-> HttpStatus(status),
       body |-> [ status |-> status,
                  hasDependencies |-> checked,
                  dependencies |-> IF checked THEN statuses ELSE <<>> ] ]

\* the handler is invoked: without dependencies it responds; otherwise every
\* checkDependency call runs to its await, or to its return when the
\* configuration is invalid
HandlerInvoke ==
  /\ health.pc = "idle"
  /\ LET deps == health.config.dependencies IN
     IF health.config.hasDependencies /\ Len(deps) > 0
     THEN LET invalid == { i \in 1..Len(deps) : DependencyChecker(deps[i]) = "invalid" }
              started == [i \in 1..Len(deps) |->
                            IF i \in invalid
                            THEN SettledCheck(NoOutcome, checkDependency(deps[i], NoOutcome).status)
                            ELSE PendingCheck(deps[i])]
          IN IF \E i \in invalid : checkDependency(deps[i], NoOutcome).threw
             THEN health' = [health EXCEPT !.pc = "rejected"]
             ELSE health' = [health EXCEPT
                    !.pc = "checking",
                    !.checks = started,
                    !.order = SelectSeq([i \in 1..Len(deps) |-> i],
                                        LAMBDA i : i \in invalid)]
     ELSE health' = [health EXCEPT
            !.pc = "responded",
            !.response = HealthResponse(health.config, <<>>)]
  /\ UNCHANGED <<store, calls, norm, vers, dep, gate>>

\* the call awaited by check i settles and checkDependency returns
CheckSettles(i, outcome) ==
  /\ health.pc = "checking"
  /\ health.checks[i].pc = "pending"
  /\ LET out == checkDependency(health.config.dependencies[i], outcome) IN
     IF out.threw
     THEN health' = [health EXCEPT !.pc = "rejected"]
     ELSE health' = [health EXCEPT
            !.checks[i] = SettledCheck(outcome, out.status),
            !.order = Append(health.order, i)]
  /\ UNCHANGED <<store, calls, norm, vers, dep, gate>>

\* Promise.all has resolved: the handler computes the overall status and
\* returns
Respond ==
  /\ health.pc = "checking"
  /\ AllSettled(health.checks)
  /\ health' = [health EXCEPT
       !.pc = "responded",
       !.response = HealthResponse(health.config,
                                   CollectStatuses(health.checks, health.order))]
  /\ UNCHANGED <<store, calls, norm, vers, dep, gate>>

InitHealth ==
  /\ store = NoStore
  /\ calls = NoCalls
  /\ norm = Unused
  /\ vers = Unused
  /\ dep = Unused
  /\ gate = Unused
  /\ health \in [ pc : {"idle"},
                  config : HealthConfigs,
                  checks : {<<>>},
                  order : {<<>>},
                  response : {NoHealthResponse} ]

NextHealth ==
  \/ HandlerInvoke
  \/ \E i \in 1..MaxDeps :
       /\ i <= Len(health.config.dependencies)
       /\ \E o \in Outcomes(DependencyChecker(health.config.dependencies[i])) :
            CheckSettles(i, o)
  \/ Respond

SpecHealth == InitHealth /\ [][NextHealth]_vars

\* the event loop runs the continuation of a resolved Promise.all
SpecHealthLive == SpecHealth /\ WF_vars(Respond)

\* ------------------------------------------------------------------------
\* A gateway path: normalizeApiPath, then isValidApiVersion
\* ------------------------------------------------------------------------

\* the characters of gateway prefixes: a letter, the version marker, a digit
\* and the separator
GatewayChars == {"s", "v", "1", "/"}

\* non-empty service prefixes (API Gateway stage or service names)
GatewayPrefixes == StrOver(GatewayChars, MaxPrefixLen) \ {<<>>}

\* the digits N of the version segment
VersionNumbers == { <<"1">>, <<"2">>, <<"1", "1">> }

\* what follows the version segment
PathTails == { <<>>, <<"s">> }

\* '/' + s + '/v' + N + '/' + tail
GatewayPath(prefix, number, tail) ==
  <<"/">> \o prefix \o <<"/", "v">> \o number \o <<"/">> \o tail

\* the handler normalizes the gateway path
GatewayNormalize ==
  /\ gate.pc = "input"
  /\ gate' = [gate EXCEPT
       !.pc = "normalized",
       !.normalized = normalizeApiPath(gate.rawPath, gate.servicePrefix)]
  /\ UNCHANGED <<store, calls, norm, vers, dep, health>>

\* the version is validated on the normalized path, and on the raw path
GatewayValidate ==
  /\ gate.pc = "normalized"
  /\ gate' = [gate EXCEPT
       !.pc = "validated",
       !.valid = isValidApiVersion(gate.normalized, gate.expectedVersion),
       !.validRaw = isValidApiVersion(gate.rawPath, gate.expectedVersion)]
  /\ UNCHANGED <<store, calls, norm, vers, dep, health>>

InitGate ==
  /\ store = NoStore
  /\ calls = NoCalls
  /\ norm = Unused
  /\ vers = Unused
  /\ dep = Unused
  /\ health = Unused
  /\ \E s \in GatewayPrefixes, n \in VersionNumbers, t \in PathTails,
        e \in ExpectedVersions :
       gate = [ pc |-> "input",
                servicePrefix |-> s,
                number |-> n,
                rawPath |-> GatewayPath(s, n, t),
                expectedVersion |-> e,
                normalized |-> NoPath,
                valid |-> FALSE,
                validRaw |-> FALSE ]

NextGate ==
  \/ GatewayNormalize
  \/ GatewayValidate

SpecGate == InitGate /\ [][NextGate]_vars

\* ------------------------------------------------------------------------
\* Properties of authorizeRequest
\* ------------------------------------------------------------------------

Done(c) == calls[c].pc = "done"

UpperHeader(c) == HeaderOf(calls[c].event, "X-API-Key")

LowerHeader(c) == HeaderOf(calls[c].event, "x-api-key")

IsString(v) == v \in Seq(Chars)

\* '' or only whitespace
IsBlank(v) == IsString(v) /\ \A i \in 1..Len(v) : v[i] = " "

\* the key name the caller configured
ConfiguredKey(c) ==
  IF calls[c].options.given /\ calls[c].options.sharedKeyName \in KeyNames
  THEN calls[c].options.sharedKeyName
  ELSE DefaultKeyName

\* the value the call's own read returned under key n, if the read succeeded
ValueRead(c, n) ==
  IF calls[c].response.kind = "resolve" /\ calls[c].response.secret.kind = "object"
  THEN calls[c].response.secret.object[n]
  ELSE Undefined

\* the value the store holds under the call's secret path and key n
ValueStored(c, n) ==
  IF calls[c].secretPath \in StorePaths /\ store[calls[c].secretPath].kind = "object"
  THEN store[calls[c].secretPath].object[n]
  ELSE Undefined

\* v, trimmed, is a non-empty string equal to the value the read returned
\* under the configured key
Presents(c, v) ==
  /\ IsString(v)
  /\ ~IsBlank(v)
  /\ ValueRead(c, ConfiguredKey(c)) = Trim(v)

\* C1: a call returns authorized:true only after one completed lookup for
\* (secretPath, sharedKeyName) whose value is exactly the trimmed credential
\* header; equality of the whole string, letter for letter
C1_AuthorizedOnlyOnExactMatch ==
  \A c \in DOMAIN calls :
    (Done(c) /\ calls[c].result.authorized) =>
      /\ calls[c].sends = 1
      /\ calls[c].lookup = [SecretId |-> calls[c].secretPath, key |-> ConfiguredKey(c)]
      /\ calls[c].response.kind = "resolve"
      /\ \E v \in {UpperHeader(c), LowerHeader(c)} :
           /\ IsString(v)
           /\ IsString(ValueRead(c, ConfiguredKey(c)))
           /\ Len(ValueRead(c, ConfiguredKey(c))) = Len(Trim(v))
           /\ \A i \in 1..Len(Trim(v)) : ValueRead(c, ConfiguredKey(c))[i] = Trim(v)[i]

C1_Witness ==
  \E c \in DOMAIN calls :
    /\ Done(c)
    /\ calls[c].result.authorized
    /\ UpperHeader(c) = <<" ", "k">>
    /\ ValueRead(c, DefaultKeyName) = <<"k">>

LookupFailed(c) ==
  /\ calls[c].sends = 1
  /\ \/ calls[c].response.kind = "reject"
     \/ calls[c].secretPath = <<>>
     \/ ~HasDelimiter(calls[c].secretPath)
     \/ calls[c].response.secret.kind \in {"nostring", "malformed"}
     \/ ValueRead(c, ConfiguredKey(c)) = Undefined

\* C2: no call throws, and a call whose lookup failed (send rejected, empty
\* path, path without '/', secret without SecretString or not JSON, secret
\* without the configured key) returns {authorized:false, method:'none'}
C2_NeverThrows ==
  \A c \in DOMAIN calls :
    /\ ~calls[c].threw
    /\ Done(c) => calls[c].result \in {Authorized, NotAuthorized}
    /\ (Done(c) /\ LookupFailed(c)) => calls[c].result = NotAuthorized

C2_Witness ==
  \E c \in DOMAIN calls :
    /\ Done(c)
    /\ calls[c].secretPath = <<"a">>
    /\ calls[c].response.kind = "reject"
    /\ calls[c].result = NotAuthorized

\* C3: in every result, method is 'none' exactly when authorized is false
C3_MethodNoneIffUnauthorized ==
  \A c \in DOMAIN calls :
    Done(c) => (calls[c].result.method = "none" <=> ~calls[c].result.authorized)

C3_Witness ==
  \E c \in DOMAIN calls :
    /\ Done(c)
    /\ calls[c].sends = 1
    /\ calls[c].result.method = "none"
    /\ calls[c].response.kind = "resolve"

CarriesOnlyUnder(c, n, names) ==
  /\ IsString(HeaderOf(calls[c].event, n))
  /\ ~IsBlank(HeaderOf(calls[c].event, n))
  /\ ValueStored(c, ConfiguredKey(c)) = Trim(HeaderOf(calls[c].event, n))
  /\ \A m \in names \ {n} : HeaderOf(calls[c].event, m) = Undefined

\* C4: a request that carries, under 'X-API-Key' or under 'x-api-key', a
\* value whose trimmed form is non-empty and equals the stored secret value
\* is answered {authorized:true, method:'shared-key'} when the read succeeds
C4_BothSpellingsAuthorize ==
  \A c \in DOMAIN calls :
    \A n \in {"X-API-Key", "x-api-key"} :
      (Done(c) /\ CarriesOnlyUnder(c, n, {"X-API-Key", "x-api-key"})
               /\ calls[c].response.kind # "reject")
        => calls[c].result = Authorized

C4_Witness ==
  \E c \in DOMAIN calls :
    /\ Done(c)
    /\ UpperHeader(c) = Undefined
    /\ LowerHeader(c) = <<"k", " ">>
    /\ calls[c].result = Authorized

\* C5: a request that carries the correct credential under exactly one
\* casing of the header name, whichever it is, is answered
\* {authorized:true, method:'shared-key'} when the read succeeds
C5_AnyCasingAuthorizes ==
  \A c \in DOMAIN calls :
    \A n \in CredentialHeaderNames :
      (Done(c) /\ CarriesOnlyUnder(c, n, CredentialHeaderNames)
               /\ calls[c].response.kind # "reject")
        => calls[c].result = Authorized

\* C6 as stated: an empty or whitespace-only X-API-Key value is answered
\* {authorized:false, method:'none'} whatever the rest of the request holds
C6_BlankUpperNeverAuthorized ==
  \A c \in DOMAIN calls :
    (Done(c) /\ IsBlank(UpperHeader(c))) => calls[c].result = NotAuthorized

\* C6 amended: a whitespace-only X-API-Key value, or an empty X-API-Key value
\* next to an absent, empty or whitespace-only x-api-key, is answered
\* {authorized:false, method:'none'} whatever the store and the other fields
\* hold
C6_BlankCredentialNeverAuthorized ==
  \A c \in DOMAIN calls :
    ( /\ Done(c)
      /\ IsBlank(UpperHeader(c))
      /\ UpperHeader(c) = <<>> => (LowerHeader(c) = Undefined \/ IsBlank(LowerHeader(c))) )
      => calls[c].result = NotAuthorized

C6_Witness ==
  \E c \in DOMAIN calls :
    /\ Done(c)
    /\ UpperHeader(c) = <<" ">>
    /\ LowerHeader(c) = <<"k">>
    /\ ValueStored(c, DefaultKeyName) = <<"k">>
    /\ calls[c].result = NotAuthorized

\* C7: with a non-empty 'X-API-Key' the decision is that of its value alone;
\* 'x-api-key' decides only when 'X-API-Key' is absent or empty; a request is
\* authorized only if one of the two values matches by itself
C7_UpperFirstThenLower ==
  \A c \in DOMAIN calls :
    Done(c) =>
      /\ (IsString(UpperHeader(c)) /\ UpperHeader(c) # <<>>)
           => (calls[c].result.authorized <=> Presents(c, UpperHeader(c)))
      /\ (UpperHeader(c) \in {Undefined, <<>>})
           => (calls[c].result.authorized <=> Presents(c, LowerHeader(c)))
      /\ calls[c].result.authorized
           => (Presents(c, UpperHeader(c)) \/ Presents(c, LowerHeader(c)))

C7_Witness ==
  \E c \in DOMAIN calls :
    /\ Done(c)
    /\ UpperHeader(c) = <<"K">>
    /\ LowerHeader(c) = <<"k">>
    /\ ValueRead(c, DefaultKeyName) = <<"k">>
    /\ calls[c].result = NotAuthorized

NoCredential(c) ==
  \/ (IsBlank(UpperHeader(c)) /\ UpperHeader(c) # <<>>)
  \/ /\ UpperHeader(c) \in {Undefined, <<>>}
     /\ (LowerHeader(c) = Undefined \/ IsBlank(LowerHeader(c)))

\* C8: a call sends at most one read to the store, and none when the
\* credential header it reads is absent, empty or whitespace-only
C8_AtMostOneRead ==
  \A c \in DOMAIN calls :
    /\ calls[c].sends <= 1
    /\ Done(c) => (calls[c].sends = 0 <=> NoCredential(c))
    /\ (Done(c) /\ calls[c].sends = 0) => calls[c].response = NoResponse

C8_Witness ==
  \E c \in DOMAIN calls :
    /\ Done(c)
    /\ UpperHeader(c) = <<" ", " ">>
    /\ calls[c].sends = 0

SelectedHeader(c) ==
  IF IsString(UpperHeader(c)) /\ UpperHeader(c) # <<>>
  THEN UpperHeader(c)
  ELSE LowerHeader(c)

\* C9: the credential is compared with the value stored under
\* options.sharedKeyName, or under 'AVIARY_SHARED_API_KEY' when the option is
\* not given; a value stored under another key of the secret does not count
C9_ConfiguredKeyDecides ==
  \A c \in DOMAIN calls :
    (Done(c) /\ calls[c].response.kind = "resolve") =>
      /\ calls[c].lookup.key =
           (IF calls[c].options.given /\ calls[c].options.sharedKeyName # NoKeyName
            THEN calls[c].options.sharedKeyName
            ELSE "AVIARY_SHARED_API_KEY")
      /\ calls[c].result.authorized
           <=> ( /\ IsString(ValueStored(c, ConfiguredKey(c)))
                 /\ ValueStored(c, ConfiguredKey(c)) # <<>>
                 /\ ValueStored(c, ConfiguredKey(c)) = Trim(SelectedHeader(c)) )

C9_Witness ==
  \E c \in DOMAIN calls :
    /\ Done(c)
    /\ calls[c].options.sharedKeyName = "CUSTOM_KEY_NAME"
    /\ ValueRead(c, "CUSTOM_KEY_NAME") = <<"k">>
    /\ ValueRead(c, DefaultKeyName) = <<"k", "K">>
    /\ calls[c].result = Authorized

HasLegacyField(c) ==
  \/ HeaderOf(calls[c].event, "Authorization") # Undefined
  \/ calls[c].event.apiKeyId # Undefined

LegacyMethods == {"legacy-api-gateway", "legacy-bearer"}

\* a legacy credential that equals the stored value
LegacyValid(c, v) == v # Undefined /\ v = ValueStored(c, ConfiguredKey(c))

HasDeprecation(result) == "deprecation" \in DOMAIN result

\* C11: when the shared key is absent or does not match, a valid API
\* Gateway key id authorizes with method 'legacy-api-gateway', otherwise a
\* valid Bearer token authorizes with method 'legacy-bearer', both with a
\* deprecation marker; when the shared key matches the method is 'shared-key'
C11_LegacyFallbackInPriorityOrder ==
  \A c \in DOMAIN calls :
    (Done(c) /\ calls[c].response.kind # "reject") =>
      /\ Presents(c, SelectedHeader(c)) => calls[c].result.method = "shared-key"
      /\ (~Presents(c, SelectedHeader(c)) /\ LegacyValid(c, calls[c].event.apiKeyId))
           => /\ calls[c].result.authorized
              /\ calls[c].result.method = "legacy-api-gateway"
              /\ HasDeprecation(calls[c].result)
      /\ ( /\ ~Presents(c, SelectedHeader(c))
           /\ ~LegacyValid(c, calls[c].event.apiKeyId)
           /\ LegacyValid(c, HeaderOf(calls[c].event, "Authorization")) )
           => /\ calls[c].result.authorized
              /\ calls[c].result.method = "legacy-bearer"
              /\ HasDeprecation(calls[c].result)

\* C12: a result carries a deprecation marker only if its method is
\* 'legacy-api-gateway' or 'legacy-bearer'
C12_DeprecationOnlyForLegacy ==
  \A c \in DOMAIN calls :
    Done(c) =>
      (HasDeprecation(calls[c].result) => calls[c].result.method \in LegacyMethods)

C12_Witness ==
  \E c \in DOMAIN calls :
    /\ Done(c)
    /\ calls[c].result.method = "shared-key"
    /\ calls[c].event.apiKeyId = <<"k">>
    /\ ~HasDeprecation(calls[c].result)

\* ------------------------------------------------------------------------
\* Properties of addDeprecationHeaders
\* ------------------------------------------------------------------------

\* C13: a second application with the same authResult and sunsetDate
\* returns the headers of the first; every header present before the call
\* is present after it with its value; without a deprecation marker the
\* headers are returned as they were
C13_DeprecationHeadersIdempotent ==
  /\ dep.pc \in {"once", "twice"} =>
       /\ \A n \in DOMAIN dep.headers :
            n \in DOMAIN dep.once /\ dep.once[n] = dep.headers[n]
       /\ ~HasDeprecation(dep.authResult) => dep.once = dep.headers
  /\ dep.pc = "twice" =>
       /\ dep.twice = dep.once
       /\ \A n \in DOMAIN dep.twice :
            dep.twice[n].kind = "list" => Len(dep.twice[n].items) = 1

C13_Witness ==
  /\ dep.pc = "twice"
  /\ HasDeprecation(dep.authResult)
  /\ DOMAIN dep.headers = ExistingHeaderNames
  /\ DOMAIN dep.twice = ExistingHeaderNames \cup DeprecationHeaderNames
  /\ dep.twice["Sunset"].weekday = "Sun"

\* ------------------------------------------------------------------------
\* Properties of normalizeApiPath
\* ------------------------------------------------------------------------

Normalized == norm.pc \in {"once", "twice"}

IsText(v) == v # Undefined /\ v # NoPath

\* the characters before the first '/' of str
RECURSIVE UpToSlash(_)
UpToSlash(str) ==
  IF str = <<>> \/ Head(str) = "/" THEN <<>>
  ELSE <<Head(str)>> \o UpToSlash(Tail(str))

\* the first segment of a path, with or without its leading '/'
FirstSegment(path) ==
  IF path # <<>> /\ Head(path) = "/" THEN UpToSlash(Tail(path)) ELSE UpToSlash(path)

\* a service name: one path segment
IsSegment(prefix) ==
  IsText(prefix) /\ \A i \in 1..Len(prefix) : prefix[i] # "/"

\* C14: normalizing a normalized path again with the same prefix returns it
C14_NormalizeIdempotent ==
  norm.pc = "twice" => norm.twice = norm.once

\* C15 as stated: when the first segment of a non-empty rawPath is not the
\* service name, the returned path is rawPath itself
C15_UnprefixedPathReturnedAsIs ==
  ( /\ Normalized
    /\ IsText(norm.rawPath) /\ norm.rawPath # <<>>
    /\ IsSegment(norm.servicePrefix)
    /\ FirstSegment(norm.rawPath) # norm.servicePrefix )
    => norm.once = norm.rawPath

\* C15 amended: when the first segment of rawPath is not the service name,
\* the returned path is rawPath with a leading '/' ensured, nothing removed
C15_UnprefixedPathOnlyGetsSlash ==
  ( /\ Normalized
    /\ IsText(norm.rawPath) /\ norm.rawPath # <<>>
    /\ IsSegment(norm.servicePrefix)
    /\ FirstSegment(norm.rawPath) # norm.servicePrefix )
    => /\ norm.rawPath[1] = "/" => norm.once = norm.rawPath
       /\ norm.rawPath[1] # "/" => norm.once = <<"/">> \o norm.rawPath

C15_Witness ==
  /\ Normalized
  /\ norm.servicePrefix = <<"s">>
  /\ norm.rawPath = <<"/", "s", "v", "/", "s">>
  /\ norm.once = norm.rawPath

\* C16: the returned path starts with '/', and is '/' for an empty or
\* missing rawPath
C16_ResultStartsWithSlash ==
  /\ Normalized =>
       /\ IsText(norm.once) /\ norm.once # <<>> /\ norm.once[1] = "/"
       /\ norm.rawPath \in {Undefined, <<>>} => norm.once = <<"/">>
  /\ norm.pc = "twice" =>
       IsText(norm.twice) /\ norm.twice # <<>> /\ norm.twice[1] = "/"

C16_Witness ==
  /\ Normalized
  /\ norm.rawPath = <<"s">>
  /\ norm.servicePrefix = <<"s">>
  /\ norm.once = <<"/">>

\* C17: with a non-empty prefix s and P the rawPath with a leading '/'
\* ensured: P = '/' + s gives '/', and P = '/' + s + r with r starting with
\* '/' gives r, character for character
C17_PrefixStrippedOnceVerbatim ==
  ( /\ Normalized
    /\ IsText(norm.rawPath) /\ norm.rawPath # <<>>
    /\ IsText(norm.servicePrefix) /\ norm.servicePrefix # <<>> )
    => LET P == IF norm.rawPath[1] = "/" THEN norm.rawPath
                ELSE <<"/">> \o norm.rawPath
           n == Len(norm.servicePrefix) + 1
       IN /\ P = <<"/">> \o norm.servicePrefix => norm.once = <<"/">>
          /\ ( /\ Len(P) > n
               /\ SubSeq(P, 1, n) = <<"/">> \o norm.servicePrefix
               /\ P[n + 1] = "/" )
               => /\ Len(norm.once) = Len(P) - n
                  /\ \A i \in 1..Len(norm.once) : norm.once[i] = P[n + i]

C17_Witness ==
  /\ Normalized
  /\ norm.servicePrefix = <<"s">>
  /\ norm.rawPath = <<"/", "s", "/", "/", "v">>
  /\ norm.once = <<"/", "/", "v">>

\* C18: with an empty or missing prefix a non-empty rawPath is returned as
\* it is when it starts with '/', and with '/' put in front otherwise
C18_NoPrefixNoStripping ==
  ( /\ Normalized
    /\ norm.servicePrefix \in {Undefined, <<>>}
    /\ IsText(norm.rawPath) /\ norm.rawPath # <<>> )
    => /\ norm.rawPath[1] = "/" => norm.once = norm.rawPath
       /\ norm.rawPath[1] # "/" => norm.once = <<"/">> \o norm.rawPath

C18_Witness ==
  /\ Normalized
  /\ norm.servicePrefix = <<>>
  /\ norm.rawPath = <<"/", "/", "s">>
  /\ norm.once = <<"/", "/", "s">>

\* ------------------------------------------------------------------------
\* Properties of extractApiVersion and isValidApiVersion
\* ------------------------------------------------------------------------

Extracted == vers.pc \in {"extracted", "validated"}

\* the lengths n for which path is '/v', n decimal digits, '/', anything
MarkerLengths(path) ==
  { n \in 1..Len(path) :
      /\ Len(path) >= n + 3
      /\ path[1] = "/" /\ path[2] = "v"
      /\ \A i \in 3..(n + 2) : path[i] \in {"0", "1", "2", "3", "4", "5", "6", "7", "8", "9"}
      /\ path[n + 3] = "/" }

\* C19: the version is 'v' and the digits exactly when the path starts with
\* '/v', one or more digits and '/'; otherwise it is null
C19_VersionIffLeadingMarker ==
  Extracted =>
    /\ \A n \in MarkerLengths(vers.path) :
         vers.version = <<"v">> \o SubSeq(vers.path, 3, n + 2)
    /\ MarkerLengths(vers.path) = {} => vers.version = Null

C19_Witness ==
  /\ Extracted
  /\ vers.path = <<"/", "v", "1", "2", "/">>
  /\ vers.version = <<"v", "1", "2">>

\* C20: the path is valid exactly when its version is null or equals the
\* expected version, 'v1' when none is given; a path without a version
\* marker is always valid, a path with one only for its own version
C20_ValidIffNullOrExpected ==
  vers.pc = "validated" =>
    LET expected == IF vers.expectedVersion = Undefined THEN <<"v", "1">>
                    ELSE vers.expectedVersion
    IN /\ vers.valid <=> (vers.version = Null \/ vers.version = expected)
       /\ MarkerLengths(vers.path) = {} => vers.valid
       /\ \A n \in MarkerLengths(vers.path) :
            vers.valid <=> expected = <<"v">> \o SubSeq(vers.path, 3, n + 2)

C20_Witness ==
  /\ vers.pc = "validated"
  /\ vers.expectedVersion = Undefined
  /\ vers.path = <<"/", "v", "1", "/", "2">>
  /\ vers.valid

\* ------------------------------------------------------------------------
\* Properties of the health handler
\* ------------------------------------------------------------------------

Responded == health.pc = "responded"

\* the dependencies the configuration lists (none when the list is missing)
Configured == health.config.dependencies

\* the dependencies whose check ended 'unhealthy'
Unhealthy ==
  { i \in 1..Len(health.checks) : health.checks[i].status.status = "unhealthy" }

\* C21: the overall status is 'unhealthy' exactly when there is a dependency
\* and all are unhealthy, 'degraded' exactly when some but not all are, and
\* 'healthy' otherwise
C21_OverallStatusAggregates ==
  Responded =>
    LET n == Len(Configured)
        overall == health.response.body.status
    IN /\ overall = "unhealthy" <=> (n > 0 /\ Cardinality(Unhealthy) = n)
       /\ overall = "degraded" <=> (Cardinality(Unhealthy) > 0 /\ Cardinality(Unhealthy) < n)
       /\ overall = "healthy" <=> Cardinality(Unhealthy) = 0

C21_Witness ==
  /\ Responded
  /\ Len(Configured) = 2
  /\ Cardinality(Unhealthy) = 1
  /\ health.response.body.status = "degraded"

\* C22: the status code is 503 exactly when the status in the body is
\* 'unhealthy', and 200 for 'healthy' and 'degraded'
C22_StatusCodeAgreesWithBody ==
  Responded =>
    /\ health.response.body.status \in {"healthy", "degraded", "unhealthy"}
    /\ health.response.statusCode = 503 <=> health.response.body.status = "unhealthy"
    /\ health.response.statusCode = 200 <=>
         health.response.body.status \in {"healthy", "degraded"}

C22_Witness ==
  /\ Responded
  /\ health.response.body.status = "degraded"
  /\ health.response.statusCode = 200

\* the check of dependency i failed: its awaited call rejected, or the
\* dependency has neither a custom check nor a known type with a resource
CheckFailed(i) ==
  LET d == Configured[i] IN
  /\ health.checks[i].pc = "settled"
  /\ \/ health.checks[i].outcome.kind = "reject"
     \/ ~d.check /\ ~(d.type \in {"dynamodb", "s3", "sqs"} /\ d.resource \notin {Undefined, <<>>})

\* C27: the handler never rejects; a failed check yields an 'unhealthy' entry
\* with an error message, and the response has one entry per dependency
C27_HandlerNeverRejects ==
  /\ health.pc # "rejected"
  /\ \A i \in 1..Len(health.checks) :
       CheckFailed(i) =>
         /\ health.checks[i].status.status = "unhealthy"
         /\ health.checks[i].status.error \notin {Undefined, <<>>}
  /\ Responded =>
       /\ Len(health.response.body.dependencies) = Len(Configured)
       /\ \A i \in 1..Len(Configured) :
            CheckFailed(i) =>
              /\ health.response.body.dependencies[i].status = "unhealthy"
              /\ health.response.body.dependencies[i].error \notin {Undefined, <<>>}

C27_Witness ==
  /\ Responded
  /\ Len(Configured) = 2
  /\ Configured[1].check /\ health.checks[1].outcome = Rejected(NotAnError)
  /\ health.response.body.dependencies[1].error = <<"Unknown error">>
  /\ ~Configured[2].check /\ Configured[2].type = "custom"
  /\ health.response.body.dependencies[2].status = "unhealthy"

\* the awaited call of check i resolved and reported health
ReportedHealthy(i) ==
  LET d == Configured[i]
      o == health.checks[i].outcome
  IN /\ health.checks[i].pc = "settled"
     /\ o.kind = "resolve"
     /\ IF d.check THEN o.healthy
        ELSE /\ d.resource \notin {Undefined, <<>>}
             /\ \/ d.type = "dynamodb" /\ o.tableStatus = <<"ACTIVE">>
                \/ d.type \in {"s3", "sqs"}

\* C28: a dependency is 'healthy' only if its check resolved and reported
\* health; before that its status is 'unhealthy'; a custom check, when
\* present, decides whatever the type and resource
C28_HealthyOnlyWhenReported ==
  \A i \in 1..Len(health.checks) :
    /\ health.checks[i].status.status = "healthy" => ReportedHealthy(i)
    /\ health.checks[i].pc = "pending" => health.checks[i].status.status = "unhealthy"
    /\ (health.checks[i].pc = "settled" /\ Configured[i].check) =>
         ( health.checks[i].status.status = "healthy" <=>
             (health.checks[i].outcome.kind = "resolve" /\ health.checks[i].outcome.healthy) )

C28_Witness ==
  /\ health.pc = "checking"
  /\ Len(Configured) = 2
  /\ Configured[1] = DependencyOf("Orders Table", "dynamodb", <<"orders">>, TRUE)
  /\ health.checks[1].pc = "settled"
  /\ health.checks[1].status.status = "healthy"
  /\ health.checks[2].pc = "pending"

\* C29: whatever the order in which the checks complete, entry i of the
\* response reports dependency i, and the overall status counts them all
C29_EntriesInConfiguredOrder ==
  (Responded /\ Len(Configured) > 0) =>
    /\ health.response.body.hasDependencies
    /\ Len(health.response.body.dependencies) = Len(Configured)
    /\ \A i \in 1..Len(Configured) :
         /\ health.response.body.dependencies[i].name = Configured[i].name
         /\ health.response.body.dependencies[i].type = Configured[i].type
         /\ health.response.body.dependencies[i].resource = Configured[i].resource
         /\ health.response.body.dependencies[i] = health.checks[i].status
    /\ health.response.body.status = "healthy" <=>
         \A i \in 1..Len(Configured) : health.checks[i].status.status = "healthy"
    /\ health.response.body.status = "unhealthy" <=>
         \A i \in 1..Len(Configured) : health.checks[i].status.status = "unhealthy"

C29_Witness ==
  /\ Responded
  /\ health.order = <<2, 1>>
  /\ Configured[1].name # Configured[2].name
  /\ health.response.body.dependencies[1].name = Configured[1].name

\* every configured dependency check has settled
ChecksSettled ==
  /\ health.pc # "idle"
  /\ Len(health.checks) = Len(Configured)
  /\ \A i \in 1..Len(health.checks) : health.checks[i].pc = "settled"

\* C30: the response comes only after every check has settled, and it does
\* come once every check has settled; while a check is pending there is none
C30_RespondsOnceAllSettled ==
  /\ [](Responded => (Len(Configured) > 0 => ChecksSettled))
  /\ (<>ChecksSettled) => <>Responded

C30_Witness ==
  /\ Responded
  /\ Len(Configured) = 2
  /\ Len(health.order) = 2
  /\ ChecksSettled

\* ------------------------------------------------------------------------
\* Properties of version validation on gateway paths
\* ------------------------------------------------------------------------

\* the expected version in force: 'v1' when none is given
ExpectedInForce ==
  IF gate.expectedVersion = Undefined THEN <<"v", "1">> ELSE gate.expectedVersion

\* 'vN' of the gateway path
GatewayVersion == <<"v">> \o gate.number

\* the lengths n for which '/' + s + '/' starts with '/v', n digits and '/'
PrefixMarkers == MarkerLengths(<<"/">> \o gate.servicePrefix \o <<"/">>)

\* C26 as stated: on the normalized path the version is valid exactly when
\* 'vN' is the expected version, and on the raw path it is always valid
C26_RawPathAlwaysValid ==
  gate.pc = "validated" =>
    /\ gate.valid <=> GatewayVersion = ExpectedInForce
    /\ gate.validRaw

\* C26 amended: on the normalized path the version is valid exactly when
\* 'vN' is the expected version; on the raw path it is always valid unless
\* the prefix itself starts with a version marker, and then it is valid
\* exactly when that marker is the expected version
C26_RawPathValidUnlessPrefixIsMarker ==
  gate.pc = "validated" =>
    /\ gate.valid <=> GatewayVersion = ExpectedInForce
    /\ PrefixMarkers = {} => gate.validRaw
    /\ \A n \in PrefixMarkers :
         gate.validRaw <=> ExpectedInForce = <<"v">> \o SubSeq(gate.servicePrefix, 2, n + 1)

C26_Witness ==
  /\ gate.pc = "validated"
  /\ gate.servicePrefix = <<"s">>
  /\ gate.number = <<"2">>
  /\ gate.expectedVersion = <<"v", "1">>
  /\ ~gate.valid
  /\ gate.validRaw

\* ------------------------------------------------------------------------
\* Properties of authorizeRequest beside other calls and a changing secret
\* ------------------------------------------------------------------------

\* call c completes its read of the store in this step
ReadCompletes(c) ==
  /\ calls[c].pc = "awaiting"
  /\ calls'[c].pc = "done"
  /\ calls'[c].response.kind = "resolve"
  /\ calls[c].lookup.SecretId \in StorePaths

\* C23: a call that completes its read gets the secret the store holds at
\* that moment and is authorized exactly when its credential is the value
\* stored then, whatever earlier calls have read
C23_NoCachedSecret ==
  [][ \A c \in DOMAIN calls :
        ReadCompletes(c) =>
          LET stored == store[calls[c].lookup.SecretId] IN
          /\ calls'[c].response.secret = stored
          /\ calls'[c].result.authorized <=>
               ( /\ stored.kind = "object"
                 /\ stored.object[calls[c].lookup.key] \notin {Undefined, <<>>}
                 /\ stored.object[calls[c].lookup.key] = calls[c].trimmedKey ) ]_vars

\* the old credential is accepted by call 1, the secret changes, and call 2
\* rejects the old credential
C23_Witness ==
  /\ MaxCalls >= 2
  /\ Done(1) /\ calls[1].result = Authorized /\ UpperHeader(1) = <<"k">>
  /\ ValueRead(1, DefaultKeyName) = <<"k">>
  /\ Done(2) /\ calls[2].result = NotAuthorized /\ UpperHeader(2) = <<"k">>
  /\ ValueRead(2, DefaultKeyName) = <<"K">>
  /\ store[PlainPath].object[DefaultKeyName] = <<"K">>

\* C24: under every interleaving a call's result is decided by its own
\* header and the value its own read returned, and a step of one call
\* leaves every other call as it was
C24_CallsIndependent ==
  /\ [](\A c \in DOMAIN calls :
          Done(c) =>
            /\ calls[c].result \in {Authorized, NotAuthorized}
            /\ calls[c].result = Authorized <=> Presents(c, SelectedHeader(c))
            /\ calls[c].lookup \in {NoLookup,
                 [SecretId |-> calls[c].secretPath, key |-> ConfiguredKey(c)]})
  /\ [][ \A c, d \in DOMAIN calls :
           (c # d /\ calls'[c] # calls[c]) => calls'[d] = calls[d] ]_vars

\* two calls read different values and get different results at once
C24_Witness ==
  /\ MaxCalls >= 2
  /\ Done(1) /\ Done(2)
  /\ UpperHeader(1) = <<"K">> /\ UpperHeader(2) = <<"k">>
  /\ ValueRead(1, DefaultKeyName) = <<"k">>
  /\ ValueRead(2, DefaultKeyName) = <<"K">>
  /\ calls[1].result = NotAuthorized
  /\ calls[2].result = NotAuthorized

\* C25: when the secret has no SecretString, or the value under the
\* configured key is empty or absent, no request is authorized
C25_EmptySecretAuthorizesNobody ==
  \A c \in DOMAIN calls :
    ( /\ Done(c)
      /\ calls[c].response.kind = "resolve"
      /\ \/ calls[c].response.secret.kind = "nostring"
         \/ /\ calls[c].response.secret.kind = "object"
            /\ calls[c].response.secret.object[ConfiguredKey(c)] \in {Undefined, <<>>} )
    => calls[c].result = NotAuthorized

C25_Witness ==
  \E c \in DOMAIN calls :
    /\ Done(c)
    /\ UpperHeader(c) = <<"k">>
    /\ calls[c].response.kind = "resolve"
    /\ calls[c].response.secret.kind = "object"
    /\ calls[c].response.secret.object[DefaultKeyName] = <<>>
    /\ calls[c].result = NotAuthorized

====
